---- MODULE Spec2Model ----
(***************************************************************************)
(* Session model of the WhatsApp sender service (class Session and its     *)
(* registry, src/src/middleware/auth.js:53-301) with the REST routes that  *)
(* call it (src/src/routes/sessions.js).                                   *)
(*                                                                         *)
(* One Session object, `this` (id TrackedId, the first one created), is    *)
(* modelled with all its fields and all its asynchronous activities.  The  *)
(* registry `sessions` is modelled for every id; for the other ids it      *)
(* keeps what the registry operations read (presence and userId).          *)
(*                                                                         *)
(* Scheduling is JavaScript's: code between two awaits on I/O or a timer   *)
(* is one atomic step.  A continuation that waits only on a promise that   *)
(* is already settled (a microtask) runs before any socket event, timer or *)
(* HTTP request: where the model keeps it as a step of its own, nothing    *)
(* else is enabled until it has run.                                       *)
(*                                                                         *)
(* The connection handle (Baileys socket) is an external object.  The      *)
(* code subscribes a handler on every handle it creates and never          *)
(* unsubscribes or ends a replaced handle, so every handle created may     *)
(* deliver any connection.update at any time.                              *)
(*                                                                         *)
(* The map-based implementation of src/src/index.js (its `sessions` Map,   *)
(* connectToWhatsApp and the create and delete routes) is modelled next    *)
(* to it, with variables of its own.                                       *)
(***************************************************************************)
EXTENDS Integers, Sequences, FiniteSets, TLC

\* ------------------------------------------------------------ bounds
MaxEnq == 2        \* addToQueue calls in one behaviour
MaxInit == 3       \* initialize() invocations in one behaviour (SpecLife)
MaxInitQ == 2      \* initialize() invocations in one behaviour (SpecQueue)
MaxSessions == 3   \* Session.create calls in one behaviour (ids 1..MaxSessions)
MaxConnect == 2    \* connectToWhatsApp calls in one behaviour (SpecIndex)
MaxDeleting == 1   \* DELETE requests of one sessionId awaiting logout() at once
MaxSend == 2       \* direct sendMessage calls that reach the handle (SpecSend)
MaxItems == 2      \* items queued or sent of one session object (SpecBulk)
MaxLen == 3        \* characters of a raw destination string (SpecFormat)

\* ------------------------------------------------------------ inputs
TrackedId == 1
Users == {1, 2}
Owner == CHOOSE u \in Users : \A v \in Users : u <= v
NoQr == "null"
QRs == {"X"}
NoSocket == 0
\* connection.update payloads: qr, connection, and whether
\* lastDisconnect.error.output.statusCode is DisconnectReason.loggedOut
Updates ==
  { u \in [qr : QRs \cup {NoQr}, connection : {"none", "open", "close"},
           loggedOut : BOOLEAN] :
      /\ u.qr # NoQr \/ u.connection # "none"
      /\ u.loggedOut => u.connection = "close" }
Messages == {"hi"}
DOMAIN_SUFFIX == "@s.whatsapp.net"
Digits == {"0", "1", "2", "3", "4", "5", "6", "7", "8", "9"}
Whitespace == {" "}
\* raw destination strings, as sequences of characters
Numbers == { <<"1">>, <<"+", "2">> }
\* the characters of raw destination strings: a digit, a non-digit, a white
\* space, and the address domain, which is kept as one symbol
Alphabet == {"1", "+", " ", DOMAIN_SUFFIX}
\* every string of at most MaxLen of them
RawNumbers == UNION { [1..n -> Alphabet] : n \in 0..MaxLen }
\* the numbers arrays of POST /:id/bulk
BulkInputs == { << >> } \cup { <<n>> : n \in Numbers }
                \cup { <<n1, n2>> : n1 \in Numbers, n2 \in Numbers }

\* the names of POST /api/sessions, as sequences of characters
Names == { << "a" >>, << "A" >>, << "-" >> }
\* the letters of the names: upper case |-> lower case
LowerOf == [A |-> "a"]

VARIABLES
  \* module state (auth.js:55-56)
  sessions,         \* id -> userId of the Session stored under id
  nextSessionId,
  \* fields of the tracked Session (auth.js:59-72)
  status, socket, qrCode, messagesSent, queueLength, messageQueue,
  lastActivity, processingQueue,
  \* asynchronous activities of the tracked Session
  initPending,      \* initialize() calls suspended at `await useMultiFileAuthState`
  sending,          \* direct sendMessage calls suspended at
                    \* `await this.socket.sendMessage`
  drainPc,          \* one entry per processMessageQueue loop:
                    \*   "send"  awaiting sendMessage, which awaits the handle
                    \*   "fail"  awaiting sendMessage, which has already failed
                    \*   "pace"  awaiting the pacing timer
  \* environment
  nHandles,         \* handles made by makeWASocket so far: 1..nHandles
  \* history
  initCalls,        \* initialize() invocations so far
  initFailed,       \* of these, how many ended in the catch block
  nCloseOther,      \* close events with a reason other than logged-out received
  enqLog,           \* numbers passed to addToQueue, in call order
  handed,           \* drain calls of socket.sendMessage: [seq, to]
  shifted,          \* the item the latest messageQueue.shift() removed, as
                    \* the drain left it
  unpaced,          \* delivery attempts of the drain since a pacing delay of
                    \* the drain last ended
  held,             \* seqs queued when a non-logout close hit a pacing drain
  deleted,          \* ids for which deleteById returned true
  \* index.js
  sessionsMap,      \* the Map `sessions`: sessionId -> session object
  connecting,       \* per sessionId, the connectToWhatsApp calls suspended at
                    \* `await useMultiFileAuthState`
  socks,            \* the socks made so far: socks[h] is the sessionId of the
                    \* connectToWhatsApp call that made sock h
  deleting,         \* per sessionId, the DELETE requests suspended at
                    \* `await session.socket.logout()`
  procs,            \* the processMessageQueue loops of index.js: sessionId,
                    \* the object `session` of the loop, pc ("send" awaiting
                    \* the sock, "pace" awaiting the timer), and current:
                    \* whether the Map holds this very object
  \* history of index.js
  connectCalls,     \* connectToWhatsApp calls so far
  accepted,         \* per sessionId, the create requests answered 201 since
                    \* the last DELETE of the id that was answered 200
  gone,             \* sessionIds whose DELETE was answered 200, with no
                    \* create answered 201 since
  nDirect,          \* direct sendMessage calls that called the handle's send
  sendsOk,          \* sends of the handle (drain or direct) that resolved
  last              \* the last call or event and what it returned

vars == << sessions, nextSessionId, status, socket, qrCode, messagesSent,
           queueLength, messageQueue, lastActivity, processingQueue,
           initPending, sending, drainPc, nHandles, initCalls, initFailed,
           nCloseOther, enqLog, handed, shifted, unpaced, held, deleted, nDirect,
           sendsOk, sessionsMap, connecting, socks, deleting, procs,
           connectCalls, accepted, gone, last >>

\* the variables of index.js
indexVars == << sessionsMap, connecting, socks, deleting, procs, connectCalls,
                accepted, gone >>

\* the variables of the Session class and its registry
sessionVars == << sessions, nextSessionId, status, socket, qrCode, messagesSent,
                  queueLength, messageQueue, lastActivity, processingQueue,
                  initPending, sending, drainPc, nHandles, initCalls,
                  initFailed, nCloseOther, enqLog, handed, shifted, unpaced,
                  held, deleted, nDirect, sendsOk >>

Statuses == {"INITIALIZING", "WAITING_FOR_SCAN", "CONNECTED", "DISCONNECTED",
             "LOGGED_OUT", "ERROR"}

\* ------------------------------------------------------------ helpers
RECURSIVE trim(_)
trim(str) ==
  IF str = << >> THEN str
  ELSE IF Head(str) \in Whitespace THEN trim(Tail(str))
  ELSE IF str[Len(str)] \in Whitespace THEN trim(SubSeq(str, 1, Len(str) - 1))
  ELSE str

includes(str, ch) == \E i \in 1..Len(str) : str[i] = ch

IsDigit(ch) == ch \in Digits

\* formatNumber, stripping and suffixing whatever the string contains
formatNumber_alwaysStrips(number) ==
  Append(SelectSeq(trim(number), IsDigit), DOMAIN_SUFFIX)

\* formattedNumber of sendMessage
formatNumber(number) ==
  LET formattedNumber == trim(number) IN
  IF ~includes(formattedNumber, DOMAIN_SUFFIX)
    THEN Append(SelectSeq(formattedNumber, IsDigit), DOMAIN_SUFFIX)
    ELSE formattedNumber

RemoveAt(seq, i) == SubSeq(seq, 1, i - 1) \o SubSeq(seq, i + 1, Len(seq))

\* the tracked Session and its activities as one record
Self ==
  [ status |-> status, socket |-> socket, qrCode |-> qrCode,
    messagesSent |-> messagesSent, queueLength |-> queueLength,
    messageQueue |-> messageQueue, lastActivity |-> lastActivity,
    processingQueue |-> processingQueue, initPending |-> initPending,
    sending |-> sending, drainPc |-> drainPc, nHandles |-> nHandles, initCalls |-> initCalls,
    initFailed |-> initFailed, handed |-> handed, shifted |-> shifted,
    unpaced |-> unpaced ]

Store(s) ==
  /\ status' = s.status
  /\ socket' = s.socket
  /\ qrCode' = s.qrCode
  /\ messagesSent' = s.messagesSent
  /\ queueLength' = s.queueLength
  /\ messageQueue' = s.messageQueue
  /\ lastActivity' = s.lastActivity
  /\ processingQueue' = s.processingQueue
  /\ initPending' = s.initPending
  /\ sending' = s.sending
  /\ drainPc' = s.drainPc
  /\ nHandles' = s.nHandles
  /\ initCalls' = s.initCalls
  /\ initFailed' = s.initFailed
  /\ handed' = s.handed
  /\ shifted' = s.shifted
  /\ unpaced' = s.unpaced

\* no item: what shift() returns on an empty array
NoItem == [number |-> << >>, message |-> "", seq |-> 0]

\* constructor
NewSession ==
  [ status |-> "INITIALIZING", socket |-> NoSocket, qrCode |-> NoQr,
    messagesSent |-> 0, queueLength |-> 0, messageQueue |-> << >>,
    lastActivity |-> 0, processingQueue |-> FALSE, initPending |-> 0,
    sending |-> 0, drainPc |-> << >>, nHandles |-> 0, initCalls |-> 0, initFailed |-> 0,
    handed |-> << >>, shifted |-> NoItem, unpaced |-> 0 ]

\* ------------------------------------------------------------ Session methods
\* initialize(), up to its first suspension.  throws: the directory setup
\* throws before the await.
initialize(s, throws) ==
  LET s1 == [s EXCEPT !.status = "INITIALIZING", !.initCalls = @ + 1] IN
  IF throws
    THEN [s1 EXCEPT !.status = "ERROR", !.initFailed = @ + 1]
    ELSE [s1 EXCEPT !.initPending = @ + 1]

\* initialize(), from `await useMultiFileAuthState` to its return.  throws:
\* the credential load rejects or makeWASocket throws.
initializeResume(s, throws) ==
  LET s1 == [s EXCEPT !.initPending = @ - 1] IN
  IF throws
    THEN [s1 EXCEPT !.status = "ERROR", !.initFailed = @ + 1]
    ELSE [s1 EXCEPT !.nHandles = @ + 1, !.socket = s.nHandles + 1]

\* drainLoop, sending the newest item instead of the head
drainLoop_sendsLast(s, i) ==
  IF Len(s.messageQueue) > 0 /\ s.status = "CONNECTED"
    THEN LET item == s.messageQueue[Len(s.messageQueue)] IN
         IF s.socket = NoSocket
           THEN [s EXCEPT !.drainPc[i] = "fail", !.unpaced = @ + 1]
           ELSE [s EXCEPT !.handed = Append(@, [seq |-> item.seq,
                                                to |-> formatNumber(item.number)]),
                          !.drainPc[i] = "send", !.unpaced = @ + 1]
    ELSE [s EXCEPT !.processingQueue = FALSE, !.drainPc = RemoveAt(@, i)]

\* drainLoop, leaving the loop without the finally block
drainLoop_keepsFlag(s, i) ==
  IF Len(s.messageQueue) > 0 /\ s.status = "CONNECTED"
    THEN LET item == s.messageQueue[1] IN
         IF s.socket = NoSocket
           THEN [s EXCEPT !.drainPc[i] = "fail", !.unpaced = @ + 1]
           ELSE [s EXCEPT !.handed = Append(@, [seq |-> item.seq,
                                                to |-> formatNumber(item.number)]),
                          !.drainPc[i] = "send", !.unpaced = @ + 1]
    ELSE [s EXCEPT !.drainPc = RemoveAt(@, i)]

\* One turn of the while loop of processMessageQueue, for loop i of drainPc,
\* from the loop test to the next suspension (or to the finally block).
drainLoop(s, i) ==
  IF Len(s.messageQueue) > 0 /\ s.status = "CONNECTED"
    THEN LET item == s.messageQueue[1] IN
         IF s.socket = NoSocket
           \* sendMessage: this.socket.sendMessage throws a TypeError, which
           \* is caught: sendMessage resolves to false
           THEN [s EXCEPT !.drainPc[i] = "fail", !.unpaced = @ + 1]
           ELSE [s EXCEPT !.handed = Append(@, [seq |-> item.seq,
                                                to |-> formatNumber(item.number)]),
                          !.drainPc[i] = "send", !.unpaced = @ + 1]
    ELSE [s EXCEPT !.processingQueue = FALSE, !.drainPc = RemoveAt(@, i)]

\* processMessageQueue without the test of processingQueue
processMessageQueue_noFlag(s) ==
  IF s.status # "CONNECTED" \/ Len(s.messageQueue) = 0
    THEN s
    ELSE drainLoop([s EXCEPT !.processingQueue = TRUE,
                             !.drainPc = Append(@, "pace")],
                   Len(s.drainPc) + 1)

processMessageQueue(s) ==
  IF s.processingQueue \/ s.status # "CONNECTED" \/ Len(s.messageQueue) = 0
    THEN s
    ELSE drainLoop([s EXCEPT !.processingQueue = TRUE,
                             !.drainPc = Append(@, "pace")],
                   Len(s.drainPc) + 1)

\* drainAfterSend, counting a failed send as sent
drainAfterSend_countsFailures(s, i, success) ==
  LET s1 == [s EXCEPT !.messagesSent = @ + 1, !.lastActivity = @ + 1]
  IN [s1 EXCEPT !.shifted = IF Len(s1.messageQueue) > 0
                              THEN Head(s1.messageQueue) ELSE NoItem,
                !.messageQueue = IF Len(@) > 0 THEN Tail(@) ELSE @,
                !.queueLength = IF Len(s1.messageQueue) > 0
                                  THEN Len(s1.messageQueue) - 1 ELSE 0,
                !.drainPc[i] = "pace"]

\* drainAfterSend, going on to the next item at once after a failed send
drainAfterSend_pacesOnSuccessOnly(s, i, success) ==
  LET s1 == IF success
              THEN [s EXCEPT !.messagesSent = @ + 1, !.lastActivity = @ + 1]
              ELSE s
      s2 == [s1 EXCEPT !.shifted = IF Len(s1.messageQueue) > 0
                                     THEN Head(s1.messageQueue) ELSE NoItem,
                       !.messageQueue = IF Len(@) > 0 THEN Tail(@) ELSE @,
                       !.queueLength = IF Len(s1.messageQueue) > 0
                                         THEN Len(s1.messageQueue) - 1 ELSE 0,
                       !.drainPc[i] = "pace"]
  IN IF success THEN s2 ELSE drainLoop(s2, i)

\* drainAfterSend, without the shift
drainAfterSend_keepsItem(s, i, success) ==
  LET s1 == IF success
              THEN [s EXCEPT !.messagesSent = @ + 1, !.lastActivity = @ + 1]
              ELSE s
  IN [s1 EXCEPT !.drainPc[i] = "pace"]

\* processMessageQueue after `await this.sendMessage(...)`: sendMessage's
\* stats update on success, then the shift and the start of the pacing delay
drainAfterSend(s, i, success) ==
  LET s1 == IF success
              THEN [s EXCEPT !.messagesSent = @ + 1, !.lastActivity = @ + 1]
              ELSE s
  IN [s1 EXCEPT !.shifted = IF Len(s1.messageQueue) > 0
                              THEN Head(s1.messageQueue) ELSE NoItem,
                !.messageQueue = IF Len(@) > 0 THEN Tail(@) ELSE @,
                !.queueLength = IF Len(s1.messageQueue) > 0
                                  THEN Len(s1.messageQueue) - 1 ELSE 0,
                !.drainPc[i] = "pace"]

\* sendMessage, without the test of the status
sendMessage_noStatusTest(s, number, message) ==
  IF s.socket = NoSocket
    THEN [called |-> FALSE, to |-> << >>, session |-> s]
    ELSE [called |-> TRUE, to |-> formatNumber(number),
          session |-> [s EXCEPT !.sending = @ + 1]]

\* sendMessage(number, message) called from outside the drain, up to
\* `await this.socket.sendMessage`: whether the handle's send was called,
\* with which destination, and the Session afterwards.  When it was not
\* called, an error was thrown and caught and sendMessage resolves to false.
sendMessage(s, number, message) ==
  IF s.status # "CONNECTED"
    THEN [called |-> FALSE, to |-> << >>, session |-> s]
  ELSE IF s.socket = NoSocket
    THEN [called |-> FALSE, to |-> << >>, session |-> s]
  ELSE [called |-> TRUE, to |-> formatNumber(number),
        session |-> [s EXCEPT !.sending = @ + 1]]

\* sendMessage after `await this.socket.sendMessage`: the stats update when
\* the send resolved, the catch block when it rejected
sendMessageDone(s, success) ==
  LET s1 == [s EXCEPT !.sending = @ - 1] IN
  IF success
    THEN [s1 EXCEPT !.messagesSent = @ + 1, !.lastActivity = @ + 1]
    ELSE s1

\* POST /:id/send for the tracked Session, up to its await: found is whether
\* getById finds it, userId its owner, user the authenticated user.  code 0:
\* no response yet, the route awaits sendMessage.
send(s, found, userId, user, number, message) ==
  IF number = << >> \/ message = ""
    THEN [code |-> 400, error |-> "bad request", session |-> s]
  ELSE IF ~found
    THEN [code |-> 404, error |-> "not found", session |-> s]
  ELSE IF userId # user
    THEN [code |-> 403, error |-> "forbidden", session |-> s]
  ELSE IF s.status # "CONNECTED"
    THEN [code |-> 400, error |-> "not connected", session |-> s]
  ELSE LET r == sendMessage(s, number, message) IN
       IF r.called
         THEN [code |-> 0, error |-> "", session |-> r.session]
         ELSE [code |-> 500, error |-> "send failed", session |-> s]

\* addToQueue, putting the item at the head of the queue
addToQueue_front(s, number, message, seq) ==
  LET s1 == [s EXCEPT !.messageQueue =
                        << [number |-> number, message |-> message,
                            seq |-> seq] >> \o @,
                      !.queueLength = Len(s.messageQueue) + 1]
  IN IF ~s1.processingQueue /\ s1.status = "CONNECTED"
       THEN processMessageQueue(s1)
       ELSE s1

\* addToQueue, without the processMessageQueue call
addToQueue_noDrain(s, number, message, seq) ==
  [s EXCEPT !.messageQueue =
              Append(@, [number |-> number, message |-> message, seq |-> seq]),
            !.queueLength = Len(s.messageQueue) + 1]

\* seq numbers the item for the history variables; the code has no such field
addToQueue(s, number, message, seq) ==
  LET s1 == [s EXCEPT !.messageQueue =
                        Append(@, [number |-> number, message |-> message,
                                   seq |-> seq]),
                      !.queueLength = Len(s.messageQueue) + 1]
  IN IF ~s1.processingQueue /\ s1.status = "CONNECTED"
       THEN processMessageQueue(s1)
       ELSE s1

\* the for loop of POST /:id/bulk
RECURSIVE addAllToQueue(_, _, _, _)
addAllToQueue(s, numbers, message, seq) ==
  IF numbers = << >> THEN s
  ELSE addAllToQueue(addToQueue(s, Head(numbers), message, seq),
                     Tail(numbers), message, seq + 1)

\* bulk, without the test of the status
bulk_noStatusTest(s, found, userId, user, numbers, message, seq) ==
  IF Len(numbers) = 0
    THEN [code |-> 400, error |-> "bad request", session |-> s]
  ELSE IF ~found
    THEN [code |-> 404, error |-> "not found", session |-> s]
  ELSE IF userId # user
    THEN [code |-> 403, error |-> "forbidden", session |-> s]
  ELSE [code |-> 200, error |-> "",
        session |-> addAllToQueue(s, numbers, message, seq)]

\* POST /:id/bulk for the tracked Session: found is whether getById finds it,
\* userId its owner, user the authenticated user.  The response and the
\* Session afterwards.
bulk(s, found, userId, user, numbers, message, seq) ==
  IF Len(numbers) = 0
    THEN [code |-> 400, error |-> "bad request", session |-> s]
  ELSE IF ~found
    THEN [code |-> 404, error |-> "not found", session |-> s]
  ELSE IF userId # user
    THEN [code |-> 403, error |-> "forbidden", session |-> s]
  ELSE IF s.status # "CONNECTED"
    THEN [code |-> 400, error |-> "not connected", session |-> s]
  ELSE [code |-> 200, error |-> "",
        session |-> addAllToQueue(s, numbers, message, seq)]

\* throws: socket.end() throws; the catch block returns false
disconnect(s, throws) ==
  IF s.socket # NoSocket /\ throws
    THEN s
    ELSE [s EXCEPT !.socket = NoSocket, !.status = "DISCONNECTED"]

\* delete(): disconnect, then removal of the session directory
delete(s, throws) == disconnect(s, throws)

\* connectionUpdate, without the processMessageQueue call of an opened event
connectionUpdate_noDrain(s, update, throws) ==
  LET s1 == IF update.qr # NoQr
              THEN [s EXCEPT !.qrCode = update.qr, !.status = "WAITING_FOR_SCAN"]
              ELSE s
  IN IF update.connection = "close"
       THEN IF ~update.loggedOut
              THEN initialize([s1 EXCEPT !.status = "DISCONNECTED"], throws)
              ELSE [s1 EXCEPT !.status = "LOGGED_OUT"]
     ELSE IF update.connection = "open"
       THEN [s1 EXCEPT !.status = "CONNECTED", !.qrCode = NoQr]
     ELSE s1

\* connectionUpdate, without the reconnect of a non-logout close
connectionUpdate_noReconnect(s, update, throws) ==
  LET s1 == IF update.qr # NoQr
              THEN [s EXCEPT !.qrCode = update.qr, !.status = "WAITING_FOR_SCAN"]
              ELSE s
  IN IF update.connection = "close"
       THEN IF ~update.loggedOut
              THEN [s1 EXCEPT !.status = "DISCONNECTED"]
              ELSE [s1 EXCEPT !.status = "LOGGED_OUT"]
     ELSE IF update.connection = "open"
       THEN processMessageQueue([s1 EXCEPT !.status = "CONNECTED",
                                           !.qrCode = NoQr])
     ELSE s1

\* the connection.update handler.  throws: the directory setup of the
\* initialize() it calls throws.
connectionUpdate(s, update, throws) ==
  LET s1 == IF update.qr # NoQr
              THEN [s EXCEPT !.qrCode = update.qr, !.status = "WAITING_FOR_SCAN"]
              ELSE s
      shouldReconnect == ~update.loggedOut
  IN IF update.connection = "close"
       THEN IF shouldReconnect
              THEN initialize([s1 EXCEPT !.status = "DISCONNECTED"], throws)
              ELSE [s1 EXCEPT !.status = "LOGGED_OUT"]
     ELSE IF update.connection = "open"
       THEN processMessageQueue([s1 EXCEPT !.status = "CONNECTED",
                                           !.qrCode = NoQr])
     ELSE s1

\* ------------------------------------------------------------ registry
\* sessions[id]; 0 stands for undefined
getById(id) == IF id \in DOMAIN sessions THEN id ELSE 0

\* the ids of the Sessions getAllByUserId returns
getAllByUserId(userId) == { id \in DOMAIN sessions : sessions[id] = userId }

\* sessions[id] = session
MapPut(m, k, v) == [x \in DOMAIN m \cup {k} |-> IF x = k THEN v ELSE m[x]]

\* MapDel, leaving the entry in place
MapDel_keeps(m, k) == m

\* delete sessions[id]
MapDel(m, k) == [x \in DOMAIN m \ {k} |-> m[x]]

QueueSeqs(q) == { q[i].seq : i \in 1..Len(q) }

\* a call or an event: ok and ret are what it returned, ev the event or the
\* error message, busy whether processingQueue was true when an opened event
\* called processMessageQueue
Op(op, ok, ret, ev, busy) ==
  [op |-> op, ok |-> ok, ret |-> ret, ev |-> ev, busy |-> busy]

\* a continuation of an earlier call (after an await)
Continuation == Op("continuation", TRUE, 0, "", FALSE)

\* ------------------------------------------------------------ index.js
replaceChar(ch) ==
  IF ch \in DOMAIN LowerOf \/ (\E up \in DOMAIN LowerOf : LowerOf[up] = ch)
     \/ ch \in Digits \/ ch = "_"
    THEN ch ELSE "_"

toLowerCase(ch) == IF ch \in DOMAIN LowerOf THEN LowerOf[ch] ELSE ch

\* the sessionId POST /api/sessions derives from the name
sessionIdOf(name) ==
  [i \in 1..Len(name) |-> toLowerCase(replaceChar(name[i]))]

SessionIds == { sessionIdOf(name) : name \in Names }

\* an object without properties: what spreading undefined gives
NoProperties == [k \in {} |-> 0]

\* sessions.get(sessionId), for the spread
sessionsGet(m, sessionId) ==
  IF sessionId \in DOMAIN m THEN m[sessionId] ELSE NoProperties

\* { ...obj, ...upd }
Spread(obj, upd) ==
  [k \in DOMAIN obj \cup DOMAIN upd |-> IF k \in DOMAIN upd THEN upd[k] ELSE obj[k]]

\* the object connectToWhatsApp stores for sock h (name and createdAt left out)
NewEntry(h) ==
  [socket |-> h, qrCode |-> NoQr, status |-> "INITIALIZING", messagesSent |-> 0,
   messageQueue |-> << >>]

\* the connection.update handler of a sock of sessionId: the Map afterwards
\* (the reconnect it starts is in SocketUpdate)
socketUpdate(m, sessionId, update) ==
  LET m1 == IF update.qr # NoQr
              THEN MapPut(m, sessionId,
                          Spread(sessionsGet(m, sessionId),
                                 [qrCode |-> update.qr,
                                  status |-> "WAITING_FOR_SCAN"]))
              ELSE m
      shouldReconnect == ~update.loggedOut
  IN IF update.connection = "close"
       THEN MapPut(m1, sessionId,
                   Spread(sessionsGet(m1, sessionId),
                          [status |-> IF shouldReconnect THEN "DISCONNECTED"
                                                         ELSE "LOGGED_OUT"]))
     ELSE IF update.connection = "open"
       THEN MapPut(m1, sessionId,
                   Spread(sessionsGet(m1, sessionId),
                          [status |-> "CONNECTED", qrCode |-> NoQr]))
     ELSE m1

\* formattedNumber of the send routes of index.js
formatNumberIndex(number) ==
  IF includes(number, DOMAIN_SUFFIX)
    THEN number
    ELSE Append(SelectSeq(number, IsDigit), DOMAIN_SUFFIX)

\* the queue items POST /api/bulk/send makes of numbers
RECURSIVE bulkItems(_, _)
bulkItems(numbers, message) ==
  IF numbers = << >> THEN << >>
  ELSE << [number |-> formatNumberIndex(Head(numbers)), message |-> message,
           status |-> "pending"] >> \o bulkItems(Tail(numbers), message)

\* session.messageQueue || []
queueOf(session) ==
  IF "messageQueue" \in DOMAIN session THEN session.messageQueue ELSE << >>

\* session.messagesSent || 0
sentOf(session) ==
  IF "messagesSent" \in DOMAIN session THEN session.messagesSent ELSE 0

\* session.isProcessingQueue, as a condition
isProcessingQueue(session) ==
  "isProcessingQueue" \in DOMAIN session /\ session.isProcessingQueue

\* session.socket.sendMessage can be called
hasSocket(session) == "socket" \in DOMAIN session /\ session.socket # NoSocket

\* The while loop of processMessageQueue of index.js on its object session,
\* from the loop test to the next suspension (pc "send") or through the
\* finally block (pc "done").  Without a socket the call throws at once: the
\* catch block shifts the item and the loop goes on.
RECURSIVE procLoop(_)
procLoop(session) ==
  IF Len(session.messageQueue) > 0
    THEN IF hasSocket(session)
           THEN [session |-> session, pc |-> "send"]
           ELSE procLoop(Spread(session,
                                [messageQueue |-> Tail(session.messageQueue)]))
    ELSE [session |-> Spread(session, [isProcessingQueue |-> FALSE]),
          pc |-> "done"]

\* processMessageQueue of index.js after `await session.socket.sendMessage`:
\* the Map, the loop's object and the loop's position afterwards
procAfterSend(m, proc, success) ==
  LET shift == [messageQueue |-> Tail(proc.session.messageQueue)] IN
  IF success
    THEN LET session == Spread(proc.session,
                               shift @@ [messagesSent |-> sentOf(proc.session) + 1])
         IN [map |-> MapPut(m, proc.sessionId, session), session |-> session,
             pc |-> "pace"]
    ELSE LET r == procLoop(Spread(proc.session, shift)) IN
         [map |-> MapPut(m, proc.sessionId, r.session), session |-> r.session,
          pc |-> r.pc]

\* the loops of sessionId no longer hold the object the Map holds
Stale(ps, sessionId) ==
  [i \in DOMAIN ps |-> IF ps[i].sessionId = sessionId
                         THEN [ps[i] EXCEPT !.current = FALSE] ELSE ps[i]]

\* the status, QR and queue routes answer 404 for sessionId
NotFound(sessionId) == sessionId \notin DOMAIN sessionsMap

\* ------------------------------------------------------------ initial state
\* The state after Session.create(name, Owner) has returned: the Session is
\* stored under TrackedId and its initialize() has run to its first
\* suspension (or has failed in the directory setup).
Init ==
  /\ sessions = [id \in {TrackedId} |-> Owner]
  /\ nextSessionId = TrackedId + 1
  /\ \E throws \in BOOLEAN :
       LET s == initialize(NewSession, throws) IN
       /\ status = s.status
       /\ socket = s.socket
       /\ qrCode = s.qrCode
       /\ messagesSent = s.messagesSent
       /\ queueLength = s.queueLength
       /\ messageQueue = s.messageQueue
       /\ lastActivity = s.lastActivity
       /\ processingQueue = s.processingQueue
       /\ initPending = s.initPending
       /\ sending = s.sending
       /\ drainPc = s.drainPc
       /\ nHandles = s.nHandles
       /\ initCalls = s.initCalls
       /\ initFailed = s.initFailed
       /\ handed = s.handed
       /\ shifted = s.shifted
       /\ unpaced = s.unpaced
  /\ nCloseOther = 0
  /\ enqLog = << >>
  /\ held = {}
  /\ deleted = {}
  /\ nDirect = 0
  /\ sendsOk = 0
  /\ sessionsMap = << >>
  /\ connecting = [id \in SessionIds |-> 0]
  /\ socks = << >>
  /\ deleting = [id \in SessionIds |-> 0]
  /\ procs = << >>
  /\ connectCalls = 0
  /\ accepted = [id \in SessionIds |-> 0]
  /\ gone = {}
  /\ last = Op("create", TRUE, TrackedId, "", FALSE)

\* ------------------------------------------------------------ actions
\* no continuation is waiting in the microtask queue
NoMicrotask == \A i \in 1..Len(drainPc) : drainPc[i] # "fail"

\* Session.create for a further Session
Create(userId) ==
  /\ UNCHANGED indexVars
  /\ NoMicrotask
  /\ nextSessionId <= MaxSessions
  /\ sessions' = MapPut(sessions, nextSessionId, userId)
  /\ nextSessionId' = nextSessionId + 1
  /\ last' = Op("create", TRUE, nextSessionId, "", FALSE)
  /\ UNCHANGED << status, socket, qrCode, messagesSent, queueLength,
                  messageQueue, lastActivity, processingQueue, initPending,
                  sending, drainPc, nHandles, initCalls, initFailed,
                  nCloseOther, enqLog, handed, shifted, unpaced, held, deleted,
                  nDirect, sendsOk >>

\* Session.deleteById(id).  Its awaits are on promises that settle without
\* I/O, so the whole call is one step.
DeleteById(id, throws) ==
  /\ UNCHANGED indexVars
  /\ NoMicrotask
  /\ IF getById(id) = 0
       THEN /\ last' = Op("deleteById", FALSE, id, "", FALSE)
            /\ UNCHANGED << sessions, deleted >>
            /\ Store(Self)
       ELSE /\ Store(IF id = TrackedId THEN delete(Self, throws) ELSE Self)
            /\ sessions' = MapDel(sessions, id)
            /\ deleted' = deleted \cup {id}
            /\ last' = Op("deleteById", TRUE, id, "", FALSE)
  /\ UNCHANGED << nextSessionId, nCloseOther, enqLog, held, nDirect, sendsOk >>

\* the rest of an initialize() call, after its await
InitializeResume(throws) ==
  /\ UNCHANGED indexVars
  /\ NoMicrotask
  /\ initPending > 0
  /\ Store(initializeResume(Self, throws))
  /\ last' = Continuation
  /\ UNCHANGED << sessions, nextSessionId, nCloseOther, enqLog, held, deleted,
                  nDirect, sendsOk >>

\* handle h delivers a connection.update
ConnectionUpdate(h, update, throws) ==
  /\ UNCHANGED indexVars
  /\ NoMicrotask
  /\ h \in 1..nHandles
  /\ Store(connectionUpdate(Self, update, throws))
  /\ nCloseOther' = IF update.connection = "close" /\ ~update.loggedOut
                      THEN nCloseOther + 1 ELSE nCloseOther
  /\ held' = IF /\ update.connection = "close" /\ ~update.loggedOut
                /\ \E i \in 1..Len(drainPc) : drainPc[i] = "pace"
               THEN held \cup QueueSeqs(messageQueue)
               ELSE held
  /\ last' = Op("connection.update", TRUE, 0,
                IF update.connection = "close"
                  THEN (IF update.loggedOut THEN "logout" ELSE "close")
                  ELSE update.connection,
                update.connection = "open" /\ processingQueue)
  /\ UNCHANGED << sessions, nextSessionId, enqLog, deleted, nDirect, sendsOk >>

\* session.addToQueue(number, message)
\* It returns this.messageQueue.length.
AddToQueue(number, message) ==
  /\ UNCHANGED indexVars
  /\ NoMicrotask
  /\ LET s == addToQueue(Self, number, message, Len(enqLog) + 1) IN
       /\ Store(s)
       /\ last' = Op("addToQueue", TRUE, Len(s.messageQueue), "", FALSE)
  /\ enqLog' = Append(enqLog, number)
  /\ UNCHANGED << sessions, nextSessionId, nCloseOther, held, deleted,
                  nDirect, sendsOk >>

\* POST /:id/bulk on the tracked Session by an authenticated user
BulkRoute(user, numbers, message) ==
  /\ UNCHANGED indexVars
  /\ NoMicrotask
  /\ LET r == bulk(Self, getById(TrackedId) # 0,
                   IF getById(TrackedId) # 0 THEN sessions[TrackedId] ELSE 0,
                   user, numbers, message, Len(enqLog) + 1)
     IN /\ Store(r.session)
        /\ last' = Op("bulk", r.code = 200, r.code, r.error, FALSE)
        /\ enqLog' = IF r.code = 200 THEN enqLog \o numbers ELSE enqLog
  /\ UNCHANGED << sessions, nextSessionId, nCloseOther, held, deleted,
                  nDirect, sendsOk >>

\* session.sendMessage(number, message), called directly
SendMessage(number, message) ==
  /\ UNCHANGED indexVars
  /\ NoMicrotask
  /\ LET r == sendMessage(Self, number, message) IN
       /\ Store(r.session)
       /\ nDirect' = IF r.called THEN nDirect + 1 ELSE nDirect
       /\ last' = Op("sendMessage", r.called, 0,
                     IF r.called THEN "pending" ELSE "false", FALSE)
  /\ UNCHANGED << sessions, nextSessionId, nCloseOther, enqLog, held, deleted,
                  sendsOk >>

\* POST /:id/send on the tracked Session by an authenticated user
SendRoute(user, number, message) ==
  /\ UNCHANGED indexVars
  /\ NoMicrotask
  /\ LET r == send(Self, getById(TrackedId) # 0,
                   IF getById(TrackedId) # 0 THEN sessions[TrackedId] ELSE 0,
                   user, number, message)
     IN /\ Store(r.session)
        /\ nDirect' = IF r.code = 0 THEN nDirect + 1 ELSE nDirect
        /\ last' = Op("send", r.code = 0, r.code, r.error, FALSE)
  /\ UNCHANGED << sessions, nextSessionId, nCloseOther, enqLog, held, deleted,
                  sendsOk >>

\* the handle's send awaited by a direct sendMessage settles
SendMessageDone(success) ==
  /\ UNCHANGED indexVars
  /\ NoMicrotask
  /\ sending > 0
  /\ Store(sendMessageDone(Self, success))
  /\ sendsOk' = IF success THEN sendsOk + 1 ELSE sendsOk
  /\ last' = Continuation
  /\ UNCHANGED << sessions, nextSessionId, nCloseOther, enqLog, held, deleted,
                  nDirect >>

\* the continuation of drain loop i after a sendMessage that failed at once
DrainMicrotask(i) ==
  /\ UNCHANGED indexVars
  /\ i \in 1..Len(drainPc)
  /\ drainPc[i] = "fail"
  /\ Store(drainAfterSend(Self, i, FALSE))
  /\ last' = Continuation
  /\ UNCHANGED << sessions, nextSessionId, nCloseOther, enqLog, held, deleted,
                  nDirect, sendsOk >>

\* the awaited sendMessage of drain loop i settles
DrainSendDone(i, success) ==
  /\ UNCHANGED indexVars
  /\ NoMicrotask
  /\ i \in 1..Len(drainPc)
  /\ drainPc[i] = "send"
  /\ Store(drainAfterSend(Self, i, success))
  /\ last' = Continuation
  /\ sendsOk' = IF success THEN sendsOk + 1 ELSE sendsOk
  /\ UNCHANGED << sessions, nextSessionId, nCloseOther, enqLog, held, deleted,
                  nDirect >>

\* the pacing timer of drain loop i fires
DrainPaceDone(i) ==
  /\ UNCHANGED indexVars
  /\ NoMicrotask
  /\ i \in 1..Len(drainPc)
  /\ drainPc[i] = "pace"
  /\ Store(drainLoop([Self EXCEPT !.unpaced = 0], i))
  /\ last' = Continuation
  /\ UNCHANGED << sessions, nextSessionId, nCloseOther, enqLog, held, deleted,
                  nDirect, sendsOk >>

\* ------------------------------------------------------------ actions of index.js
\* POST /api/sessions with a name
PostSessions(name) ==
  /\ UNCHANGED sessionVars
  /\ LET sessionId == sessionIdOf(name) IN
     IF sessionId \in DOMAIN sessionsMap
       THEN /\ last' = Op("POST /api/sessions", FALSE, 400, "exists", FALSE)
            /\ UNCHANGED indexVars
       ELSE \* connectToWhatsApp(sessionId), to its await
            /\ connecting' = [connecting EXCEPT ![sessionId] = @ + 1]
            /\ connectCalls' = connectCalls + 1
            /\ accepted' = [accepted EXCEPT ![sessionId] = @ + 1]
            /\ gone' = gone \ {sessionId}
            /\ last' = Op("POST /api/sessions", TRUE, 201, "", FALSE)
            /\ UNCHANGED << sessionsMap, socks, deleting, procs >>

\* connectToWhatsApp(sessionId) after its await.  throws: the credential
\* load rejects or makeWASocket throws (nobody handles the rejection).
ConnectResume(sessionId, throws) ==
  /\ UNCHANGED sessionVars
  /\ connecting[sessionId] > 0
  /\ connecting' = [connecting EXCEPT ![sessionId] = @ - 1]
  /\ IF throws
       THEN UNCHANGED << sessionsMap, socks, procs >>
       ELSE /\ socks' = Append(socks, sessionId)
            /\ sessionsMap' = MapPut(sessionsMap, sessionId,
                                     NewEntry(Len(socks) + 1))
            /\ procs' = Stale(procs, sessionId)
  /\ last' = Continuation
  /\ UNCHANGED << deleting, connectCalls, accepted, gone >>

\* sock h delivers a connection.update
SocketUpdate(h, update) ==
  /\ UNCHANGED sessionVars
  /\ h \in 1..Len(socks)
  /\ sessionsMap' = socketUpdate(sessionsMap, socks[h], update)
  /\ procs' = Stale(procs, socks[h])
  /\ IF update.connection = "close" /\ ~update.loggedOut
       THEN \* connectToWhatsApp(sessionId), to its await
            /\ connecting' = [connecting EXCEPT ![socks[h]] = @ + 1]
            /\ connectCalls' = connectCalls + 1
       ELSE UNCHANGED << connecting, connectCalls >>
  /\ last' = Op("connection.update", TRUE, 0,
                IF update.connection = "close"
                  THEN (IF update.loggedOut THEN "logout" ELSE "close")
                  ELSE update.connection,
                FALSE)
  /\ UNCHANGED << socks, deleting, accepted, gone >>

\* sessions.delete(sessionId) and the 200 of the DELETE route
deleteEntry(sessionId) ==
  /\ sessionsMap' = MapDel(sessionsMap, sessionId)
  /\ procs' = Stale(procs, sessionId)
  /\ accepted' = [accepted EXCEPT ![sessionId] = 0]
  /\ gone' = gone \cup {sessionId}
  /\ last' = Op("DELETE /api/sessions", TRUE, 200, "", FALSE)

\* DELETE /api/sessions/:sessionId, to its await or to its response
DeleteSession(sessionId) ==
  /\ UNCHANGED sessionVars
  /\ IF sessionId \notin DOMAIN sessionsMap
       THEN /\ last' = Op("DELETE /api/sessions", FALSE, 404, "not found", FALSE)
            /\ UNCHANGED indexVars
       ELSE LET session == sessionsMap[sessionId] IN
            IF /\ session.status = "CONNECTED"
               /\ "socket" \in DOMAIN session
               /\ session.socket # NoSocket
              THEN /\ deleting' = [deleting EXCEPT ![sessionId] = @ + 1]
                   /\ last' = Op("DELETE /api/sessions", TRUE, 0, "", FALSE)
                   /\ UNCHANGED << sessionsMap, connecting, socks, procs,
                                   connectCalls, accepted, gone >>
              ELSE /\ deleteEntry(sessionId)
                   /\ UNCHANGED << connecting, socks, deleting, connectCalls >>

\* DELETE /api/sessions/:sessionId after `await session.socket.logout()`.
\* throws: the logout rejects (the route answers 500).
DeleteResume(sessionId, throws) ==
  /\ UNCHANGED sessionVars
  /\ deleting[sessionId] > 0
  /\ deleting' = [deleting EXCEPT ![sessionId] = @ - 1]
  /\ IF throws
       THEN /\ last' = Op("DELETE /api/sessions", FALSE, 500, "failed", FALSE)
            /\ UNCHANGED << sessionsMap, procs, accepted, gone >>
       ELSE deleteEntry(sessionId)
  /\ UNCHANGED << connecting, socks, connectCalls >>

\* POST /api/bulk/send for sessionId, with the processMessageQueue call it
\* makes, to the first suspension of the loop
BulkSend(sessionId, numbers, message) ==
  /\ UNCHANGED sessionVars
  /\ IF sessionId \notin DOMAIN sessionsMap
       THEN /\ last' = Op("POST /api/bulk/send", FALSE, 404, "not found", FALSE)
            /\ UNCHANGED indexVars
     ELSE IF sessionsMap[sessionId].status # "CONNECTED"
       THEN /\ last' = Op("POST /api/bulk/send", FALSE, 400, "not connected", FALSE)
            /\ UNCHANGED indexVars
     ELSE LET session == Spread(sessionsMap[sessionId],
                                [messageQueue |->
                                   queueOf(sessionsMap[sessionId])
                                     \o bulkItems(numbers, message)])
              \* the loops that hold the Map's object see the assignment
              ps == [i \in DOMAIN procs |->
                       IF procs[i].sessionId = sessionId /\ procs[i].current
                         THEN [procs[i] EXCEPT !.session = session]
                         ELSE procs[i]]
          IN /\ IF Len(session.messageQueue) = 0 \/ isProcessingQueue(session)
                  THEN /\ sessionsMap' = MapPut(sessionsMap, sessionId, session)
                       /\ procs' = ps
                  ELSE LET r == procLoop(Spread(session,
                                                [isProcessingQueue |-> TRUE]))
                       IN /\ sessionsMap' = MapPut(sessionsMap, sessionId, r.session)
                          /\ procs' = IF r.pc = "done" THEN ps
                                      ELSE Append(ps, [sessionId |-> sessionId,
                                                       session |-> r.session,
                                                       pc |-> "send",
                                                       current |-> TRUE])
             /\ last' = Op("POST /api/bulk/send", TRUE, 202, "", FALSE)
             /\ UNCHANGED << connecting, socks, deleting, connectCalls,
                             accepted, gone >>

\* the send awaited by loop i of index.js settles
ProcSendDone(i, success) ==
  /\ UNCHANGED sessionVars
  /\ i \in 1..Len(procs)
  /\ procs[i].pc = "send"
  /\ LET r == procAfterSend(sessionsMap, procs[i], success)
         ps == [Stale(procs, procs[i].sessionId)
                  EXCEPT ![i] = [sessionId |-> procs[i].sessionId,
                                 session |-> r.session, pc |-> r.pc,
                                 current |-> r.map[procs[i].sessionId] = r.session]]
     IN /\ sessionsMap' = r.map
        /\ procs' = IF r.pc = "done" THEN RemoveAt(ps, i) ELSE ps
  /\ last' = Continuation
  /\ UNCHANGED << connecting, socks, deleting, connectCalls, accepted, gone >>

\* the pacing timer of loop i of index.js fires
ProcPaceDone(i) ==
  /\ UNCHANGED sessionVars
  /\ i \in 1..Len(procs)
  /\ procs[i].pc = "pace"
  /\ LET r == procLoop(procs[i].session) IN
       IF r.pc = "done"
         THEN /\ sessionsMap' = MapPut(sessionsMap, procs[i].sessionId, r.session)
              /\ procs' = RemoveAt(Stale(procs, procs[i].sessionId), i)
         ELSE /\ procs' = [procs EXCEPT ![i].pc = "send", ![i].session = r.session]
              /\ UNCHANGED sessionsMap
  /\ last' = Continuation
  /\ UNCHANGED << connecting, socks, deleting, connectCalls, accepted, gone >>

\* ------------------------------------------------------------ specifications
\* a non-logout close calls initialize(): counted against the bound
Reconnects(update) == update.connection = "close" /\ ~update.loggedOut

\* connection lifecycle of the tracked Session
NextLife ==
  \/ \E throws \in BOOLEAN : InitializeResume(throws)
  \/ \E h \in 1..nHandles, update \in Updates, throws \in BOOLEAN :
       /\ Reconnects(update) => initCalls < MaxInit
       /\ ~Reconnects(update) => ~throws
       /\ ConnectionUpdate(h, update, throws)
  \/ \E throws \in BOOLEAN : DeleteById(TrackedId, throws)

SpecLife == Init /\ [][NextLife]_vars

\* the updates that carry no QR code
ConnectionUpdates == { update \in Updates : update.qr = NoQr }

\* the message queue of the tracked Session; the QR exchange is left to
\* SpecLife
NextQueue ==
  \/ \E throws \in BOOLEAN : InitializeResume(throws)
  \/ \E h \in 1..nHandles, update \in ConnectionUpdates, throws \in BOOLEAN :
       /\ Reconnects(update) => initCalls < MaxInitQ
       /\ ~Reconnects(update) => ~throws
       /\ ConnectionUpdate(h, update, throws)
  \/ \E number \in Numbers, message \in Messages :
       Len(enqLog) < MaxEnq /\ AddToQueue(number, message)
  \/ \E user \in Users, numbers \in BulkInputs, message \in Messages :
       Len(enqLog) + Len(numbers) <= MaxEnq /\ BulkRoute(user, numbers, message)
  \/ \E i \in 1..Len(drainPc), success \in BOOLEAN : DrainSendDone(i, success)
  \/ \E i \in 1..Len(drainPc) : DrainMicrotask(i)
  \/ \E i \in 1..Len(drainPc) : DrainPaceDone(i)
  \/ \E throws \in BOOLEAN : DeleteById(TrackedId, throws)

SpecQueue == Init /\ [][NextQueue]_vars

\* the drain of a Session that stays registered, across reconnects, with
\* direct addToQueue calls only
NextResume ==
  \/ \E throws \in BOOLEAN : InitializeResume(throws)
  \/ \E h \in 1..nHandles, update \in ConnectionUpdates, throws \in BOOLEAN :
       /\ Reconnects(update) => initCalls < MaxInitQ
       /\ ~Reconnects(update) => ~throws
       /\ ConnectionUpdate(h, update, throws)
  \/ \E number \in Numbers, message \in Messages :
       Len(enqLog) < MaxEnq /\ AddToQueue(number, message)
  \/ \E i \in 1..Len(drainPc), success \in BOOLEAN : DrainSendDone(i, success)
  \/ \E i \in 1..Len(drainPc) : DrainPaceDone(i)

\* every send settles and every pacing timer fires
SpecResumeFair ==
  /\ Init /\ [][NextResume]_vars
  /\ WF_vars(\E i \in 1..Len(drainPc), success \in BOOLEAN : DrainSendDone(i, success))
  /\ WF_vars(\E i \in 1..Len(drainPc) : DrainPaceDone(i))

\* the drain next to closes, reconnects and deletes, with direct addToQueue
\* calls only
NextDrain ==
  \/ \E throws \in BOOLEAN : InitializeResume(throws)
  \/ \E h \in 1..nHandles, update \in ConnectionUpdates, throws \in BOOLEAN :
       /\ Reconnects(update) => initCalls < MaxInitQ
       /\ ~Reconnects(update) => ~throws
       /\ ConnectionUpdate(h, update, throws)
  \/ \E number \in Numbers, message \in Messages :
       Len(enqLog) < MaxEnq /\ AddToQueue(number, message)
  \/ \E i \in 1..Len(drainPc), success \in BOOLEAN : DrainSendDone(i, success)
  \/ \E i \in 1..Len(drainPc) : DrainMicrotask(i)
  \/ \E i \in 1..Len(drainPc) : DrainPaceDone(i)
  \/ \E throws \in BOOLEAN : DeleteById(TrackedId, throws)

SpecDrain == Init /\ [][NextDrain]_vars

\* the drain of a Session that stays registered
SpecResume == Init /\ [][NextResume]_vars

\* the updates of a link that opens
OpenUpdates == { update \in ConnectionUpdates : update.connection = "open" }

\* one destination string of any form, queued and sent by sendMessage
NextFormat ==
  \/ InitializeResume(FALSE)
  \/ \E h \in 1..nHandles, update \in OpenUpdates :
       ConnectionUpdate(h, update, FALSE)
  \/ \E number \in RawNumbers, message \in Messages :
       enqLog = << >> /\ AddToQueue(number, message)
  \/ \E i \in 1..Len(drainPc), success \in BOOLEAN : DrainSendDone(i, success)
  \/ \E i \in 1..Len(drainPc) : DrainPaceDone(i)

SpecFormat == Init /\ [][NextFormat]_vars

\* the updates of a link that opens and is logged out, without reconnects
LinkUpdates == { update \in ConnectionUpdates : ~Reconnects(update) }

\* direct sends next to the drain; reconnects are left to SpecQueue
NextSend ==
  \/ \E throws \in BOOLEAN : InitializeResume(throws)
  \/ \E h \in 1..nHandles, update \in LinkUpdates :
       ConnectionUpdate(h, update, FALSE)
  \/ \E number \in Numbers, message \in Messages :
       Len(enqLog) < MaxEnq /\ AddToQueue(number, message)
  \/ \E number \in Numbers, message \in Messages :
       nDirect < MaxSend /\ SendMessage(number, message)
  \/ \E user \in Users, number \in Numbers, message \in Messages :
       nDirect < MaxSend /\ SendRoute(user, number, message)
  \/ \E success \in BOOLEAN : SendMessageDone(success)
  \/ \E i \in 1..Len(drainPc), success \in BOOLEAN : DrainSendDone(i, success)
  \/ \E i \in 1..Len(drainPc) : DrainMicrotask(i)
  \/ \E i \in 1..Len(drainPc) : DrainPaceDone(i)
  \/ \E throws \in BOOLEAN : DeleteById(TrackedId, throws)

SpecSend == Init /\ [][NextSend]_vars

\* the map-based implementation of index.js
NextIndex ==
  \/ \E name \in Names :
       /\ sessionIdOf(name) \notin DOMAIN sessionsMap => connectCalls < MaxConnect
       /\ PostSessions(name)
  \/ \E sessionId \in SessionIds, throws \in BOOLEAN :
       ConnectResume(sessionId, throws)
  \/ \E h \in 1..Len(socks), update \in Updates :
       /\ Reconnects(update) => connectCalls < MaxConnect
       /\ SocketUpdate(h, update)
  \/ \E sessionId \in SessionIds :
       deleting[sessionId] < MaxDeleting /\ DeleteSession(sessionId)
  \/ \E sessionId \in SessionIds, throws \in BOOLEAN :
       DeleteResume(sessionId, throws)

SpecIndex == Init /\ [][NextIndex]_vars

\* items queued or sent of the object the Map holds for sessionId
ItemsOf(sessionId) ==
  IF sessionId \in DOMAIN sessionsMap
    THEN Len(queueOf(sessionsMap[sessionId])) + sentOf(sessionsMap[sessionId])
    ELSE 0

\* one session of index.js, created once, with its bulk queue and its
\* reconnects
NextBulk ==
  \/ \E name \in Names : connectCalls = 0 /\ PostSessions(name)
  \/ \E sessionId \in SessionIds, throws \in BOOLEAN :
       ConnectResume(sessionId, throws)
  \/ \E h \in 1..Len(socks), update \in ConnectionUpdates :
       /\ Reconnects(update) => connectCalls < MaxConnect
       /\ SocketUpdate(h, update)
  \/ \E sessionId \in SessionIds, numbers \in BulkInputs, message \in Messages :
       /\ ItemsOf(sessionId) + Len(numbers) <= MaxItems
       /\ BulkSend(sessionId, numbers, message)
  \/ \E i \in 1..Len(procs), success \in BOOLEAN : ProcSendDone(i, success)
  \/ \E i \in 1..Len(procs) : ProcPaceDone(i)

SpecBulk == Init /\ [][NextBulk]_vars

\* the registry
NextRegistry ==
  \/ \E u \in Users : Create(u)
  \/ \E id \in 1..MaxSessions, throws \in BOOLEAN : DeleteById(id, throws)
  \/ \E throws \in BOOLEAN : InitializeResume(throws)

SpecRegistry == Init /\ [][NextRegistry]_vars

\* ------------------------------------------------------------ properties
HandedSeqs == { handed[i].seq : i \in 1..Len(handed) }

\* C1: the destinations the drain hands to the connection handle are those of
\* the items addToQueue appended, in the order of the addToQueue calls, each
\* item at most once, whichever sends fail; and as long as the Session has
\* not been disconnected no item is skipped.
C1_Fifo ==
  /\ \A i \in 1..Len(handed) :
       /\ handed[i].seq \in 1..Len(enqLog)
       /\ handed[i].to = formatNumber(enqLog[handed[i].seq])
  /\ \A i \in 1..Len(handed), j \in 1..Len(handed) :
       i < j => handed[i].seq < handed[j].seq
  /\ TrackedId \notin deleted => \A i \in 1..Len(handed) : handed[i].seq = i

\* two sends, one failed and one delivered, and the queue drained
C1_Witness ==
  /\ Len(handed) = 2
  /\ handed[1].to # handed[2].to
  /\ messagesSent = 1
  /\ messageQueue = << >>
  /\ ~processingQueue

\* C2: at most one drain loop exists, and a processMessageQueue call made
\* while processingQueue is true (the one of an opened event) sends nothing,
\* removes nothing and starts no loop.
C2_SingleDrain ==
  /\ [](Len(drainPc) <= 1)
  /\ [][ (last'.op = "connection.update" /\ last'.ev = "open" /\ processingQueue)
          => /\ handed' = handed
             /\ messageQueue' = messageQueue
             /\ drainPc' = drainPc ]_vars

\* an opened event arrived while a drain loop was awaiting its send
C2_Witness ==
  /\ last.op = "connection.update"
  /\ last.ev = "open"
  /\ last.busy
  /\ drainPc = << "send" >>
  /\ Len(messageQueue) = 2

\* C3: once a logged-out close has set LOGGED_OUT, no later connection.update
\* changes the status or invokes initialize().
C3_LoggedOutIsTerminal ==
  [][ (status = "LOGGED_OUT" /\ last'.op = "connection.update")
      => (status' = "LOGGED_OUT" /\ initCalls' = initCalls) ]_vars

\* C4 as stated: every non-logout close has made exactly one new handle once
\* its initialize() has finished.  (Without a handle there is no event, so
\* the initialize() of create has made the first one.)
C4_OneHandlePerClose ==
  (nCloseOther > 0 /\ initPending = 0) => nHandles = 1 + nCloseOther

\* C4 amended: every non-logout close invokes initialize() exactly once, and
\* every invocation makes exactly one handle unless its setup throws, and
\* then none.
C4_OneInitializePerClose ==
  /\ initCalls = 1 + nCloseOther
  /\ nHandles + initFailed + initPending = initCalls

\* two non-logout closes: one reconnect made a handle, the other failed
C4_Witness ==
  /\ nCloseOther = 2
  /\ initPending = 0
  /\ nHandles = 2
  /\ initFailed = 1

\* C5 as stated: an enqueue on a Session that is not CONNECTED, by addToQueue
\* or by the bulk route, is rejected and leaves messageQueue unchanged.
C5_EnqueueRejected ==
  [][ (last'.op \in {"addToQueue", "bulk"} /\ status # "CONNECTED")
      => (~last'.ok /\ messageQueue' = messageQueue) ]_vars

\* C5 amended: POST /:id/bulk on a Session that is not CONNECTED is rejected
\* (with "not connected" when the request is well-formed and the Session is
\* found and owned by the caller) and changes neither messageQueue nor
\* anything else of the Session.
C5_BulkRejected ==
  [][ (last'.op = "bulk" /\ status # "CONNECTED")
      => /\ ~last'.ok
         /\ last'.ret \in {400, 403, 404}
         /\ last'.ev \in {"bad request", "not found", "forbidden", "not connected"}
         /\ last'.ev = "not connected" => last'.ret = 400
         /\ messageQueue' = messageQueue
         /\ enqLog' = enqLog
         /\ Self' = Self ]_vars

\* the bulk route has answered "not connected" while the Session was
\* reconnecting after a close, with an item already queued
C5_Witness ==
  /\ last.op = "bulk"
  /\ last.ret = 400
  /\ last.ev = "not connected"
  /\ status = "INITIALIZING"
  /\ nCloseOther = 1
  /\ Len(messageQueue) = 1

\* C6: addToQueue always succeeds; it appends exactly the new item at the
\* tail and leaves the items before it as they were, returns the new queue
\* length, and starts a drain loop exactly when the status is CONNECTED and
\* no drain is active; otherwise it changes nothing else.
C6_AddToQueue ==
  [][ last'.op = "addToQueue"
      => /\ last'.ok
         /\ enqLog' = Append(enqLog, enqLog'[Len(enqLog')])
         /\ \E message \in Messages :
              messageQueue' =
                Append(messageQueue, [number |-> enqLog'[Len(enqLog')],
                                      message |-> message, seq |-> Len(enqLog')])
         /\ queueLength' = Len(messageQueue')
         /\ last'.ret = Len(messageQueue) + 1
         /\ IF status = "CONNECTED" /\ ~processingQueue
              THEN /\ processingQueue'
                   /\ Len(drainPc') = Len(drainPc) + 1
              ELSE /\ drainPc' = drainPc
                   /\ processingQueue' = processingQueue
                   /\ handed' = handed
         /\ status' = status /\ socket' = socket /\ qrCode' = qrCode
         /\ messagesSent' = messagesSent ]_vars

\* addToQueue has appended a second item while the Session was not CONNECTED
\* and started no drain
C6_Witness ==
  /\ last.op = "addToQueue"
  /\ last.ret = 2
  /\ Len(messageQueue) = 2
  /\ status # "CONNECTED"
  /\ drainPc = << >>

IsPrefix(p, q) == Len(p) <= Len(q) /\ SubSeq(q, 1, Len(p)) = p

\* C7: when a step leaves the Session not CONNECTED and no send was in
\* flight before it (the drain is between items or not running), the queued
\* items stay queued in their order; nothing is handed to a handle by a
\* step that leaves the Session not CONNECTED; and an item that was queued
\* when a non-logout close hit the pacing drain is, once the Session is
\* CONNECTED again, eventually handed to the handle, unless the Session
\* leaves CONNECTED again.
C7_ResumeAfterClose ==
  /\ [][ ( status' # "CONNECTED"
           /\ \A i \in 1..Len(drainPc) : drainPc[i] = "pace" )
         => IsPrefix(messageQueue, messageQueue') ]_vars
  /\ [][ status' # "CONNECTED" => handed' = handed ]_vars
  /\ \A k \in 1..MaxEnq :
       (k \in held /\ k \in QueueSeqs(messageQueue) /\ status = "CONNECTED")
         ~> (k \in HandedSeqs \/ status # "CONNECTED")

\* of two items the first was sent, a non-logout close caught the second in
\* the queue during the pacing delay, and it has since been handed to the
\* handle and delivered
C7_Witness ==
  /\ held = {2}
  /\ HandedSeqs = {1, 2}
  /\ messagesSent = 2
  /\ nCloseOther = 1
  /\ socket = 2
  /\ messageQueue = << >>
  /\ status = "CONNECTED"
  /\ ~processingQueue

\* C8: qrCode is non-null only while the status is WAITING_FOR_SCAN.
C8_QrOnlyWhileWaiting == qrCode # NoQr => status = "WAITING_FOR_SCAN"

\* C9: at most one initialize() of the Session is in progress.
C9_SingleAttempt == initPending <= 1

\* C10: an id deleteById has deleted is not found by getById and is not among
\* the Sessions of any user, for good (ids are not reused); and deleteById of
\* an id that is not stored returns false and changes nothing.
C10_Deleted ==
  /\ [](\A id \in deleted :
          /\ getById(id) = 0
          /\ \A u \in Users : id \notin getAllByUserId(u))
  /\ [][ (last'.op = "deleteById" /\ getById(last'.ret) = 0)
         => /\ ~last'.ok
            /\ UNCHANGED << sessions, nextSessionId, deleted >>
            /\ Self' = Self ]_vars

\* the tracked Session was deleted, a later Session was created for the same
\* user, and a second deleteById of the deleted id returned false
C10_Witness ==
  /\ TrackedId \in deleted
  /\ last.op = "deleteById"
  /\ last.ret = TrackedId
  /\ ~last.ok
  /\ getAllByUserId(Owner) # {}

\* C11: once deleteById has deleted the tracked Session, the Session's socket
\* is null, and no later step invokes initialize() or hands a queued message
\* to a connection handle.
C11_DeletedIsInert ==
  /\ [](TrackedId \in deleted => socket = NoSocket)
  /\ [][ (TrackedId \in deleted)
          => /\ initCalls' = initCalls
             /\ handed' = handed ]_vars

\* C12: messagesSent never decreases and equals the number of sends of the
\* handle, by the drain or by a direct sendMessage, that have resolved; a
\* send that was rejected or never reached the handle does not count.
C12_MessagesSent ==
  /\ [](messagesSent = sendsOk)
  /\ [][ messagesSent' >= messagesSent ]_vars

\* one direct send and two drain sends have settled, one of them rejected
C12_Witness ==
  /\ messagesSent = 2
  /\ nDirect = 1
  /\ Len(handed) = 2
  /\ sending = 0
  /\ messageQueue = << >>
  /\ ~processingQueue

\* C13: sendMessage called while the status is not CONNECTED resolves to
\* false without calling the handle's send and changes nothing of the
\* Session; the send route answers such a request with an error and does not
\* call sendMessage.
C13_SendRejected ==
  /\ [][ (last'.op = "sendMessage" /\ status # "CONNECTED")
          => /\ ~last'.ok
             /\ last'.ev = "false"
             /\ sending' = sending
             /\ nDirect' = nDirect
             /\ handed' = handed
             /\ messagesSent' = messagesSent
             /\ lastActivity' = lastActivity
             /\ messageQueue' = messageQueue
             /\ status' = status ]_vars
  /\ [][ (last'.op = "send" /\ status # "CONNECTED")
          => /\ ~last'.ok
             /\ last'.ret \in {400, 403, 404}
             /\ Self' = Self ]_vars

\* sendMessage has returned false on a logged-out Session that has a handle,
\* a queued item and one message sent
C13_Witness ==
  /\ last.op = "sendMessage"
  /\ ~last.ok
  /\ status = "LOGGED_OUT"
  /\ socket # NoSocket
  /\ Len(messageQueue) = 1
  /\ messagesSent = 1

\* sends awaiting the connection handle, of the drain and direct
InFlight ==
  sending + Cardinality({ i \in 1..Len(drainPc) : drainPc[i] = "send" })

\* C14: at most one delivery is in flight on the connection handle.
C14_SingleFlight == InFlight <= 1

\* the transitions of the state table; a non-logout close goes through
\* DISCONNECTED into the INITIALIZING of the reconnect within one step
StateTable ==
  { << "INITIALIZING", "WAITING_FOR_SCAN" >>, << "INITIALIZING", "CONNECTED" >>,
    << "WAITING_FOR_SCAN", "CONNECTED" >>,
    << "CONNECTED", "DISCONNECTED" >>, << "CONNECTED", "LOGGED_OUT" >>,
    << "CONNECTED", "INITIALIZING" >>,
    << "DISCONNECTED", "WAITING_FOR_SCAN" >>, << "DISCONNECTED", "CONNECTED" >>,
    << "DISCONNECTED", "INITIALIZING" >> }
  \cup { << st, "ERROR" >> : st \in Statuses }

\* C15: every change of the status is a transition of the state table.
C15_TableOnly ==
  [][ status' # status => << status, status' >> \in StateTable ]_vars

\* C16: while the status is LOGGED_OUT or ERROR the socket field is null.
C16_TerminalHasNoSocket ==
  status \in {"LOGGED_OUT", "ERROR"} => socket = NoSocket

\* C17: an initialize() that ends in its catch block leaves the status ERROR,
\* and once an initialize() has failed no further initialize() is invoked.
C17_NoRetryAfterError ==
  /\ [][ initFailed' > initFailed => status' = "ERROR" ]_vars
  /\ [][ initFailed > 0 => initCalls' = initCalls ]_vars

\* C18: of the create requests for one sessionId at most one is answered 201
\* (until a DELETE of the id has succeeded); any other is rejected.
C18_UniqueCreate == \A sessionId \in SessionIds : accepted[sessionId] <= 1

\* C19: a sessionId whose DELETE was answered 200 stays absent from the Map
\* (the status, QR and queue routes answer 404) until a create for it is
\* accepted.
C19_DeletedStaysAbsent == \A sessionId \in gone : NotFound(sessionId)

\* the send awaited by drain loop i fails in this step
FailedAttempt(i) ==
  /\ drainPc[i] \in {"send", "fail"}
  /\ drainPc'[i] = "pace"
  /\ sendsOk' = sendsOk

\* C20: when a delivery attempt of the drain fails, the item is removed from
\* the queue marked as failed, messagesSent and the status keep their values,
\* and the drain loop goes on (to its pacing delay and the next item).
C20_FailureRecorded ==
  [][ \A i \in 1..Len(drainPc) :
        FailedAttempt(i)
          => /\ messageQueue' = Tail(messageQueue)
             /\ shifted'.seq = Head(messageQueue).seq
             /\ "status" \in DOMAIN shifted'
             /\ shifted'.status = "failed"
             /\ messagesSent' = messagesSent
             /\ status' = status
             /\ processingQueue' ]_vars

\* C21: a pacing delay of the drain separates any two consecutive delivery
\* attempts of the drain, after a failed attempt as after a successful one:
\* never two attempts since a pacing delay last ended.
C21_Paced == unpaced <= 1

\* the second item is being sent after the first send failed and its pacing
\* delay ended
C21_Witness ==
  /\ Len(handed) = 2
  /\ sendsOk = 0
  /\ drainPc = << "send" >>
  /\ shifted.seq = 1
  /\ unpaced = 1

\* C22: whenever no drain loop exists processingQueue is false; every step
\* in which a loop ends clears the flag.
C22_FlagCleared ==
  /\ [](drainPc = << >> => ~processingQueue)
  /\ [][ Len(drainPc') < Len(drainPc) => ~processingQueue' ]_vars

\* a drain has sent one item and ended because the status left CONNECTED,
\* with an item still queued, and the flag is clear
C22_Witness ==
  /\ drainPc = << >>
  /\ ~processingQueue
  /\ Len(handed) = 1
  /\ Len(messageQueue) = 1
  /\ status \in {"INITIALIZING", "LOGGED_OUT"}

\* C23: between steps, a CONNECTED Session with a non-empty queue has a drain
\* loop.
C23_DrainScheduled ==
  (status = "CONNECTED" /\ messageQueue # << >>) => drainPc # << >>

\* an opened event after a reconnect, with no drain left, has started a new
\* drain for the item that had stayed queued
C23_Witness ==
  /\ last.op = "connection.update"
  /\ last.ev = "open"
  /\ ~last.busy
  /\ nCloseOther = 1
  /\ socket = 2
  /\ drainPc = << "send" >>
  /\ Len(handed) = 2
  /\ Len(messageQueue) = 1

\* C24: while the status is LOGGED_OUT no queued item is handed to the
\* connection handle and none is removed from messageQueue.
C24_LoggedOutKeepsQueue ==
  [][ (status = "LOGGED_OUT" /\ status' = "LOGGED_OUT")
      => /\ handed' = handed
         /\ IsPrefix(messageQueue, messageQueue') ]_vars

\* C27: every step that changes the status updates lastActivity.
C27_ActivityOnTransition ==
  [][ status' # status => lastActivity' # lastActivity ]_vars

\* C28: no item is handed to the connection handle more than once, and an
\* item is removed from messageQueue only from its head and after it was
\* handed to the handle exactly once.
C28_HandedOnce ==
  /\ [](\A i \in 1..Len(handed), j \in 1..Len(handed) :
          i # j => handed[i].seq # handed[j].seq)
  /\ [][ Len(messageQueue') < Len(messageQueue)
          => /\ messageQueue' = Tail(messageQueue)
             /\ Cardinality({ i \in 1..Len(handed) :
                                handed[i].seq = Head(messageQueue).seq }) = 1
             /\ handed' = handed ]_vars

\* both items were handed over and removed, the second one after a
\* reconnect, with one send failed
C28_Witness ==
  /\ Len(handed) = 2
  /\ messageQueue = << >>
  /\ shifted.seq = 2
  /\ nCloseOther = 1
  /\ socket = 2
  /\ messagesSent = 1

\* C29: a connection.update delivered by a handle other than the one in the
\* socket field changes neither status nor qrCode and starts neither an
\* initialize() nor a drain.
C29_OldHandleIgnored ==
  [][ \A h \in 1..nHandles, update \in Updates, throws \in BOOLEAN :
        (h # socket /\ ConnectionUpdate(h, update, throws))
          => /\ status' = status
             /\ qrCode' = qrCode
             /\ initCalls' = initCalls
             /\ drainPc' = drainPc ]_vars

\* C30 as stated: the destination sendMessage hands to the connection handle
\* is the digits of the input followed by the address domain, for every
\* input.
C30_Stripped ==
  \A i \in 1..Len(handed) :
    handed[i].to = Append(SelectSeq(enqLog[handed[i].seq], IsDigit), DOMAIN_SUFFIX)

\* C30 amended: for an input that does not contain the address domain the
\* destination is the digits of the input followed by the address domain;
\* an input that contains it is handed over as it is, without the white
\* space around it.
C30_Formatted ==
  \A i \in 1..Len(handed) :
    LET number == enqLog[handed[i].seq] IN
    IF \E k \in 1..Len(number) : number[k] = DOMAIN_SUFFIX
      THEN handed[i].to = trim(number)
      ELSE handed[i].to = SelectSeq(number, IsDigit) \o << DOMAIN_SUFFIX >>

\* an input with a non-digit before the address domain and white space
\* after it was handed over with the non-digit
C30_Witness ==
  /\ enqLog = << << "+", DOMAIN_SUFFIX, " " >> >>
  /\ Len(handed) = 1
  /\ handed[1].to = << "+", DOMAIN_SUFFIX >>
  /\ messagesSent = 1

\* C25: when the connectToWhatsApp call of a reconnect completes for a
\* sessionId the Map holds, the session's messageQueue is what it was and
\* its messagesSent is not smaller.
C25_ReconnectKeepsQueue ==
  [][ \A sessionId \in SessionIds :
        (sessionId \in DOMAIN sessionsMap
         /\ connecting'[sessionId] < connecting[sessionId])
          => /\ sessionId \in DOMAIN sessionsMap'
             /\ queueOf(sessionsMap'[sessionId]) = queueOf(sessionsMap[sessionId])
             /\ sentOf(sessionsMap'[sessionId]) >= sentOf(sessionsMap[sessionId]) ]_vars

\* C26: a stored status LOGGED_OUT or DISCONNECTED becomes CONNECTED only by
\* an opened event.
C26_StatusNotOverwritten ==
  [][ \A sessionId \in SessionIds :
        (/\ sessionId \in DOMAIN sessionsMap
         /\ sessionsMap[sessionId].status \in {"LOGGED_OUT", "DISCONNECTED"}
         /\ sessionId \in DOMAIN sessionsMap'
         /\ sessionsMap'[sessionId].status = "CONNECTED")
          => (last'.op = "connection.update" /\ last'.ev = "open") ]_vars

====
